---- MODULE Spec2Model ----
(***************************************************************************)
(* Model of packager/mpd/base/mpd_builder.cc (shaka-packager MpdBuilder).  *)
(*                                                                         *)
(* Strings are modelled as sequences; the empty string is <<>>.  An XML    *)
(* date-time string "YYYY-MM-DDTHH:MM:SSZ" is the tuple of its six printed *)
(* fields.  Time is counted in ticks, TicksPerSecond ticks to a second, so *)
(* that sub-second instants and fractional timestamps exist in the model.  *)
(***************************************************************************)
EXTENDS Integers, Sequences, FiniteSets

VARIABLES
    mpd_options,                \* MpdOptions given to the constructor
    build,                      \* "debug" (DCHECK/NOTREACHED fatal) or "release"
    version,                    \* what GetPackagerVersion() returns
    base_urls,                  \* MpdBuilder::base_urls_
    periods,                    \* MpdBuilder::periods_
    availability_start_time,    \* MpdBuilder::availability_start_time_
    now,                        \* what clock_->Now() returns, in ticks
    output,                     \* the caller's std::string given to ToString
    ret,                        \* outcome of the last ToString call
    last_op,                    \* the operation that made the last step
    dirty,                      \* builder or periods changed since last ToString
    media_info,                 \* the MediaInfo given to MakePathsRelativeToMpd
    mpd_path,                   \* the mpd_path given to MakePathsRelativeToMpd
    given_info,                 \* media_info as it was before the first call
    path_calls                  \* how often MakePathsRelativeToMpd ran on media_info

vars == <<mpd_options, build, version, base_urls, periods, availability_start_time, now,
          output, ret, last_op, dirty, media_info, mpd_path, given_info,
          path_calls>>

config_vars == <<mpd_options, build, version>>

builder_vars == <<mpd_options, build, version, base_urls, periods,
                  availability_start_time, now, output, ret, last_op, dirty>>

path_vars == <<media_info, mpd_path, given_info, path_calls>>

----------------------------------------------------------------------------
(* Bounds of the model *)

MaxPeriods == 2
MaxBaseUrls == 1
MaxClock == 2
MaxAdaptationSets == 2
MaxRepresentations == 1

MaxSegments == 3
MaxPathCalls == 2

TicksPerSecond == 2

\* Earliest presentation timestamps a period can report, in ticks
\* (0.5 s, 1.5 s: both have a fractional part, so ceil matters).
Timestamps == {1, 3}

\* Scratch "duration" hints an upstream producer can attach, in seconds.
DurationHints == {2, 7}

\* Values of the four numeric MpdParams, in seconds.
ParamValues == {-1, 0, 1}

\* An absent optional value is the empty sequence, a present one <<v>>.
NoTimestamp == <<>>
NoHint == <<>>

----------------------------------------------------------------------------
(* XML nodes: [name, attrs, content, children] *)

XmlNode(name) ==
    [name |-> name, attrs |-> <<>>, content |-> <<>>, children |-> <<>>]

HasAttr(node, attr_name) == \E i \in 1..Len(node.attrs) : node.attrs[i][1] = attr_name

RECURSIVE ReplaceAttr(_, _, _)
ReplaceAttr(attrs, attr_name, value) ==
    IF attrs = <<>> THEN <<>>
    ELSE IF Head(attrs)[1] = attr_name
         THEN <<<<attr_name, value>>>> \o Tail(attrs)
         ELSE <<Head(attrs)>> \o ReplaceAttr(Tail(attrs), attr_name, value)

\* xmlSetProp: replaces the value of an existing attribute, else appends one.
SetStringAttribute(node, attr_name, value) ==
    IF HasAttr(node, attr_name)
    THEN [node EXCEPT !.attrs = ReplaceAttr(@, attr_name, value)]
    ELSE [node EXCEPT !.attrs = Append(@, <<attr_name, value>>)]

GetAttr(node, attr_name) ==
    LET i == CHOOSE j \in 1..Len(node.attrs) : node.attrs[j][1] = attr_name
    IN  node.attrs[i][2]

\* Number of attributes of the node named attr_name.
CountAttr(node, attr_name) ==
    Cardinality({i \in 1..Len(node.attrs) : node.attrs[i][1] = attr_name})

RECURSIVE RemoveAttr(_, _)
RemoveAttr(attrs, attr_name) ==
    IF attrs = <<>> THEN <<>>
    ELSE IF Head(attrs)[1] = attr_name
         THEN RemoveAttr(Tail(attrs), attr_name)
         ELSE <<Head(attrs)>> \o RemoveAttr(Tail(attrs), attr_name)

\* xmlUnsetProp
UnsetProp(node, attr_name) == [node EXCEPT !.attrs = RemoveAttr(@, attr_name)]

\* A "&" that starts no entity reference.
BareAmpersand == "&"

\* xmlNodeSetContent parses the text as XML content: a text with an
\* unterminated entity reference leaves the node without content.
SetContent(node, text) ==
    [node EXCEPT !.content =
        IF \E i \in 1..Len(text) : text[i] = BareAmpersand THEN <<>> ELSE text]

\* Content that libxml2 refuses to attach to a parent.
RejectedContent == <<"rejected">>

\* XmlNode::AddChild fails when the child is null or libxml2 rejects it.
AddChildOk(child) == child.name # "null" /\ child.content # RejectedContent

\* The null node pointer.
Null == [name |-> "null", attrs |-> <<>>, content |-> <<>>, children |-> <<>>]

AddChild(node, child) == [node EXCEPT !.children = Append(@, child)]

----------------------------------------------------------------------------
(* The Period collaborator: [xml, earliest, adaptation_sets] *)

NewPeriod == [xml |-> "ok", earliest |-> NoTimestamp, adaptation_sets |-> <<>>]

RepresentationXml(hint) ==
    IF hint = NoHint THEN XmlNode("Representation")
    ELSE SetStringAttribute(XmlNode("Representation"), "duration", hint[1])

AdaptationSetXml(reps) ==
    [XmlNode("AdaptationSet") EXCEPT
        !.children = [j \in 1..Len(reps) |-> RepresentationXml(reps[j])]]

\* Period::GetXml: no subtree ("null"), a subtree the parent rejects
\* ("reject"), or the Period element with its AdaptationSets.
PeriodGetXml(period) ==
    IF period.xml = "null" THEN Null
    ELSE [XmlNode("Period") EXCEPT
            !.content = IF period.xml = "reject" THEN RejectedContent ELSE <<>>,
            !.children = [i \in 1..Len(period.adaptation_sets) |->
                             AdaptationSetXml(period.adaptation_sets[i])]]

\* GetDurationAttribute (mpd_utils): true when the node has a "duration"
\* attribute that parses as a number.
GetDurationAttributeOk(node) == HasAttr(node, "duration")

GetDurationAttribute(node) == GetAttr(node, "duration")

\* SecondsToXmlDuration (mpd_utils): "PT<seconds>S".
SecondsToXmlDuration(seconds) == <<"PT", seconds, "S">>

----------------------------------------------------------------------------
(* Time *)

\* base::Time::UTCExplode on an instant in ticks since the Unix epoch:
\* the civil date and time of day of the whole second it lies in.
UTCExplode(ticks) ==
    LET Exploded(y, m, d, rem) ==
            [year |-> IF m <= 2 THEN y + 1 ELSE y, month |-> m,
             day_of_month |-> d, hour |-> rem \div 3600,
             minute |-> (rem % 3600) \div 60, second |-> rem % 60]
        FromMonth(y, doy, mp, rem) ==
            Exploded(y, IF mp < 10 THEN mp + 3 ELSE mp - 9,
                     doy - (153 * mp + 2) \div 5 + 1, rem)
        FromDayOfYear(y, doy, rem) ==
            FromMonth(y, doy, (5 * doy + 2) \div 153, rem)
        FromYearOfEra(era, doe, yoe, rem) ==
            FromDayOfYear(yoe + era * 400,
                          doe - (365 * yoe + yoe \div 4 - yoe \div 100), rem)
        FromDayOfEra(era, doe, rem) ==
            FromYearOfEra(era, doe,
                          (doe - doe \div 1460 + doe \div 36524
                               - doe \div 146096) \div 365,
                          rem)
        FromEra(z, era, rem) == FromDayOfEra(era, z - era * 146097, rem)
        FromShiftedDays(z, rem) == FromEra(z, z \div 146097, rem)
        FromSeconds(secs) ==
            FromShiftedDays(secs \div 86400 + 719468, secs % 86400)
    IN  FromSeconds(ticks \div TicksPerSecond)

\* XmlDateTimeNowWithOffset: "%4d-%02d-%02dT%02d:%02d:%02dZ" of the instant
\* clock->Now() returns (clock_now, in ticks) plus the offset.
XmlDateTimeNowWithOffset(offset_seconds, clock_now) ==
    LET StringPrintf(time_exploded) ==
            <<time_exploded.year, time_exploded.month,
              time_exploded.day_of_month, time_exploded.hour,
              time_exploded.minute, time_exploded.second>>
    IN  StringPrintf(UTCExplode(clock_now + offset_seconds * TicksPerSecond))

CeilTruncated(t) == t \div TicksPerSecond

\* std::ceil of a timestamp given in ticks, in whole seconds.
Ceil(t) == -((-t) \div TicksPerSecond)

NonNegative(d) == d >= 0

Positive(d) == d > 0

SetIfPositive(attr_name, value, mpd) ==
    IF Positive(value)
    THEN SetStringAttribute(mpd, attr_name, SecondsToXmlDuration(value))
    ELSE mpd

----------------------------------------------------------------------------
(* MpdBuilder *)

AddMpdNameSpaceInfo(mpd) ==
    LET a == SetStringAttribute(mpd, "xmlns", "urn:mpeg:dash:schema:mpd:2011")
        b == SetStringAttribute(a, "xmlns:xsi",
                                "http://www.w3.org/2001/XMLSchema-instance")
        c == SetStringAttribute(b, "xmlns:xlink", "http://www.w3.org/1999/xlink")
        d == SetStringAttribute(c, "xsi:schemaLocation",
                                "urn:mpeg:dash:schema:mpd:2011 DASH-MPD.xsd")
    IN  SetStringAttribute(d, "xmlns:cenc", "urn:mpeg:cenc:2013")

IsPeriodNode(node) == node.name = "Period"

\* Index of the first <Period> among the direct children, 0 when none.
FindPeriodNode(xml_node) ==
    IF \E i \in 1..Len(xml_node.children) : IsPeriodNode(xml_node.children[i])
    THEN CHOOSE i \in 1..Len(xml_node.children) :
            /\ IsPeriodNode(xml_node.children[i])
            /\ \A j \in 1..(i - 1) : ~IsPeriodNode(xml_node.children[j])
    ELSE 0

\* The inner loop of GetStaticMpdDuration over the representations of one
\* adaptation set: [max_duration, representations].
RECURSIVE VisitRepresentations(_, _)
VisitRepresentations(reps, max_duration) ==
    IF reps = <<>> THEN [max_duration |-> max_duration, nodes |-> <<>>]
    ELSE LET representation == Head(reps)
             found == GetDurationAttributeOk(representation)
             duration == IF found THEN GetDurationAttribute(representation) ELSE 0
             new_max == IF found
                        THEN (IF max_duration > duration THEN max_duration
                                                         ELSE duration)
                        ELSE max_duration
             node == IF found THEN UnsetProp(representation, "duration")
                              ELSE representation
             rest == VisitRepresentations(Tail(reps), new_max)
         IN  [max_duration |-> rest.max_duration, nodes |-> <<node>> \o rest.nodes]

\* The outer loop of GetStaticMpdDuration over the adaptation sets of the
\* period found: [max_duration, adaptation sets].
RECURSIVE VisitAdaptationSets(_, _)
VisitAdaptationSets(sets, max_duration) ==
    IF sets = <<>> THEN [max_duration |-> max_duration, nodes |-> <<>>]
    ELSE LET inner == VisitRepresentations(Head(sets).children, max_duration)
             node == [Head(sets) EXCEPT !.children = inner.nodes]
             rest == VisitAdaptationSets(Tail(sets), inner.max_duration)
         IN  [max_duration |-> rest.max_duration, nodes |-> <<node>> \o rest.nodes]

\* GetStaticMpdDuration: [duration, mpd], mpd being the node after the
\* scratch attributes visited were removed.
GetStaticMpdDuration(mpd_node) ==
    LET period_node == FindPeriodNode(mpd_node)
    IN  IF period_node = 0
        THEN [duration |-> 0, mpd |-> mpd_node]
        ELSE LET walk == VisitAdaptationSets(
                             mpd_node.children[period_node].children, 0)
             IN  [duration |-> walk.max_duration,
                  mpd |-> [mpd_node EXCEPT
                              !.children[period_node].children = walk.nodes]]

AddCommonMpdInfo(mpd_node) ==
    IF Positive(mpd_options.min_buffer_time)
    THEN SetStringAttribute(mpd_node, "minBufferTime",
                            SecondsToXmlDuration(mpd_options.min_buffer_time))
    ELSE mpd_node

AddStaticMpdInfo(mpd_node) ==
    LET SetDuration(found) ==
            SetStringAttribute(found.mpd, "mediaPresentationDuration",
                               SecondsToXmlDuration(found.duration))
    IN  SetDuration(GetStaticMpdDuration(
            SetStringAttribute(mpd_node, "type", "static")))

\* What reading periods_.front() of an empty list can do in a build without
\* DCHECKs.  front() yields the list's own sentinel, which holds no Period;
\* the call made through it ends the process, or returns false, or returns
\* true with whatever number lies there, and nothing makes two calls agree.
UndefinedOutcomes ==
    {[crash |-> TRUE, ok |-> FALSE, t |-> 0], [crash |-> FALSE, ok |-> FALSE, t |-> 0]}
    \cup {[crash |-> FALSE, ok |-> TRUE, t |-> t] : t \in {0} \cup Timestamps}

\* GetEarliestTimestamp: [crash, ok, t].  DCHECK(!periods_.empty()) is fatal
\* in a debug build; in a release build front() of an empty list is undefined.
GetEarliestTimestamp(ub) ==
    IF periods = <<>>
    THEN IF build = "debug" THEN [crash |-> TRUE, ok |-> FALSE, t |-> 0] ELSE ub
    ELSE IF periods[1].earliest = NoTimestamp
         THEN [crash |-> FALSE, ok |-> FALSE, t |-> 0]
         ELSE [crash |-> FALSE, ok |-> TRUE, t |-> periods[1].earliest[1]]

AlwaysRecalculate == TRUE

\* availability_start_time_.empty(): the value is not calculated yet.
NotYetCalculated == availability_start_time = <<>>

\* if (!availability_start_time_.empty()) SetStringAttribute(...), ast being
\* availability_start_time_ as the calculation above left it.
SetAvailabilityStartTime(mpd_node, ast) ==
    IF ast # <<>>
    THEN SetStringAttribute(mpd_node, "availabilityStartTime", ast)
    ELSE mpd_node

\* AddDynamicMpdInfo: [crash, mpd, ast, clock], ast being
\* availability_start_time_ after the call and clock what the last
\* clock_->Now() of the call returned.  The clock is read for publishTime and
\* read again, elapsed ticks later, when availabilityStartTime is calculated.
AddDynamicMpdInfo(mpd_node, ub, elapsed) ==
    LET Delayed(shifted) ==
            SetIfPositive("suggestedPresentationDelay",
                          mpd_options.suggested_presentation_delay, shifted)
        Shifted(updated) ==
            Delayed(SetIfPositive("timeShiftBufferDepth",
                                  mpd_options.time_shift_buffer_depth, updated))
        Updated(started) ==
            Shifted(IF Positive(mpd_options.minimum_update_period)
                    THEN SetStringAttribute(started, "minimumUpdatePeriod",
                             SecondsToXmlDuration(
                                 mpd_options.minimum_update_period))
                    ELSE started)
        Started(published, ast, clock) ==
            [crash |-> FALSE, clock |-> clock,
             mpd |-> Updated(SetAvailabilityStartTime(published, ast)),
             ast |-> ast]
        Calculated(published, calculate, earliest) ==
            IF calculate /\ earliest.crash
            THEN [crash |-> TRUE, clock |-> now, mpd |-> mpd_node,
                  ast |-> availability_start_time]
            ELSE IF calculate /\ earliest.ok
            THEN Started(published,
                         XmlDateTimeNowWithOffset(-Ceil(earliest.t),
                                                  now + elapsed),
                         now + elapsed)
            ELSE Started(published, availability_start_time, now)
    IN  Calculated(SetStringAttribute(
                       SetStringAttribute(mpd_node, "type", "dynamic"),
                       "publishTime", XmlDateTimeNowWithOffset(0, now)),
                   NotYetCalculated, GetEarliestTimestamp(ub))

\* The loop that attaches the BaseURL children: Null at the first failure.
RECURSIVE AddBaseUrls(_, _)
AddBaseUrls(mpd, urls) ==
    IF urls = <<>> THEN mpd
    ELSE LET xml_base_url == SetContent(XmlNode("BaseURL"), Head(urls))
         IN  IF ~AddChildOk(xml_base_url) THEN Null
             ELSE AddBaseUrls(AddChild(mpd, xml_base_url), Tail(urls))

RECURSIVE AddPeriodsSkipFailed(_, _)
AddPeriodsSkipFailed(mpd, ps) ==
    IF ps = <<>> THEN mpd
    ELSE LET period_node == PeriodGetXml(Head(ps))
         IN  IF ~AddChildOk(period_node) THEN AddPeriodsSkipFailed(mpd, Tail(ps))
             ELSE AddPeriodsSkipFailed(AddChild(mpd, period_node), Tail(ps))

\* The loop that attaches the period subtrees: Null at the first failure.
RECURSIVE AddPeriods(_, _)
AddPeriods(mpd, ps) ==
    IF ps = <<>> THEN mpd
    ELSE LET period_node == PeriodGetXml(Head(ps))
         IN  IF ~AddChildOk(period_node) THEN Null
             ELSE AddPeriods(AddChild(mpd, period_node), Tail(ps))

GetPackagerVersion == version

GetPackagerProjectUrl == "url"

\* StringPrintf("Generated with %s version %s", url, version): the comment
\* put before the root element; no comment for an empty version.
VersionComment ==
    IF GetPackagerVersion # <<>>
    THEN <<"Generated with ", GetPackagerProjectUrl, " version ">>
         \o GetPackagerVersion
    ELSE <<>>

NoDocument == [comment |-> <<>>, root |-> Null]

\* GenerateMpd: [status, doc, ast, clock] with status "doc" (a document),
\* "null" (nullptr returned) or "crash" (the process aborted inside the call).
GenerateMpd(ub, elapsed) ==
    LET returned_null == [status |-> "null", doc |-> NoDocument,
                          ast |-> availability_start_time, clock |-> now]
        aborted == [status |-> "crash", doc |-> NoDocument,
                    ast |-> availability_start_time, clock |-> now]
        Document(info) ==
            IF info.crash THEN aborted
            ELSE [status |-> "doc",
                  doc |-> [comment |-> VersionComment, root |-> info.mpd],
                  ast |-> info.ast, clock |-> info.clock]
        Typed(common) ==
            IF mpd_options.mpd_type \notin {"static", "dynamic"}
               /\ build = "debug"
            THEN aborted
            ELSE Document(
                     IF mpd_options.mpd_type = "dynamic"
                     THEN AddDynamicMpdInfo(common, ub, elapsed)
                     ELSE [crash |-> FALSE, clock |-> now,
                           mpd |-> IF mpd_options.mpd_type = "static"
                                   THEN AddStaticMpdInfo(common)
                                   ELSE common,
                           ast |-> availability_start_time])
        Profiled(named) ==
            IF mpd_options.dash_profile \notin {"on_demand", "live"}
               /\ build = "debug"
            THEN aborted
            ELSE Typed(AddCommonMpdInfo(
                     IF mpd_options.dash_profile \in {"on_demand", "live"}
                     THEN SetStringAttribute(named, "profiles",
                              IF mpd_options.dash_profile = "on_demand"
                              THEN "urn:mpeg:dash:profile:isoff-on-demand:2011"
                              ELSE "urn:mpeg:dash:profile:isoff-live:2011")
                     ELSE named))
        WithPeriods(mpd) ==
            IF mpd = Null THEN returned_null
            ELSE Profiled(AddMpdNameSpaceInfo(mpd))
        WithBaseUrls(mpd) ==
            IF mpd = Null THEN returned_null
            ELSE WithPeriods(AddPeriods(mpd, periods))
    IN  WithBaseUrls(AddBaseUrls(XmlNode("MPD"), base_urls))

----------------------------------------------------------------------------
(* base::FilePath on a POSIX build: a path is a sequence of characters *)

kSeparator == "/"
kCurrentDirectory == <<".">>
kFileProtocol == <<"f", "i", "l", "e", ":", "/", "/">>

IsSeparator(c) == c = kSeparator

\* Position of the last separator, 0 when there is none (find_last_of).
LastSeparator(path) ==
    IF \E i \in 1..Len(path) : IsSeparator(path[i])
    THEN CHOOSE i \in 1..Len(path) :
            IsSeparator(path[i]) /\ \A j \in (i + 1)..Len(path) : ~IsSeparator(path[j])
    ELSE 0

\* The loop of FilePath::StripTrailingSeparatorsInternal: pos counts the
\* characters still to look at, last_stripped is 0 before the first strip.
\* Two separators that are the whole path are kept, unless more than two
\* stood there.
RECURSIVE StripLoop(_, _, _)
StripLoop(path, pos, last_stripped) ==
    IF pos > 1 /\ IsSeparator(path[pos])
    THEN IF pos # 2 \/ last_stripped = 3 \/ ~IsSeparator(path[1])
         THEN StripLoop(SubSeq(path, 1, pos - 1), pos - 1, pos)
         ELSE StripLoop(path, pos - 1, last_stripped)
    ELSE path

StripTrailingSeparators(path) == StripLoop(path, Len(path), 0)

\* FilePath::DirName
DirName(path) ==
    LET stripped == StripTrailingSeparators(path)
        last == LastSeparator(stripped)
        cut == IF last = 0 THEN <<>>
               ELSE IF last = 1 THEN SubSeq(stripped, 1, 1)
               ELSE IF last = 2 /\ IsSeparator(stripped[1]) THEN SubSeq(stripped, 1, 2)
               ELSE SubSeq(stripped, 1, last - 1)
        dir == StripTrailingSeparators(cut)
    IN  IF dir = <<>> THEN kCurrentDirectory ELSE dir

\* FilePath::BaseName
BaseName(path) ==
    LET stripped == StripTrailingSeparators(path)
        last == LastSeparator(stripped)
    IN  IF last # 0 /\ last < Len(stripped)
        THEN SubSeq(stripped, last + 1, Len(stripped))
        ELSE stripped

AreAllSeparators(path) == \A i \in 1..Len(path) : IsSeparator(path[i])

\* The loop of FilePath::GetComponents, last component first.
RECURSIVE ComponentsLoop(_)
ComponentsLoop(current) ==
    IF current # DirName(current)
    THEN LET base == BaseName(current)
         IN  (IF ~AreAllSeparators(base) THEN <<base>> ELSE <<>>)
             \o ComponentsLoop(DirName(current))
    ELSE LET base == BaseName(current)
         IN  IF base # <<>> /\ base # kCurrentDirectory THEN <<base>> ELSE <<>>

Reverse(seq) == [i \in 1..Len(seq) |-> seq[Len(seq) + 1 - i]]

\* FilePath::GetComponents
GetComponents(path) ==
    IF path = <<>> THEN <<>> ELSE Reverse(ComponentsLoop(path))

\* FilePath::AsEndingWithSeparator
AsEndingWithSeparator(path) ==
    IF path = <<>> \/ IsSeparator(path[Len(path)]) THEN path
    ELSE Append(path, kSeparator)

\* FilePath::Append
FilePathAppend(path, component) ==
    IF path = kCurrentDirectory /\ component # <<>> THEN component
    ELSE LET stripped == StripTrailingSeparators(path)
         IN  IF component # <<>> /\ stripped # <<>>
                /\ ~IsSeparator(stripped[Len(stripped)])
             THEN Append(stripped, kSeparator) \o component
             ELSE stripped \o component

RECURSIVE AppendAll(_, _)
AppendAll(path, components) ==
    IF components = <<>> THEN path
    ELSE AppendAll(FilePathAppend(path, Head(components)), Tail(components))

\* FilePath::AppendRelativePath: [is_child, path]
AppendRelativePath(parent, child) ==
    LET parent_components == GetComponents(parent)
        child_components == GetComponents(child)
        n == Len(parent_components)
    IN  IF n = 0 \/ n >= Len(child_components)
        THEN [is_child |-> FALSE, path |-> <<>>]
        ELSE IF \E i \in 1..n : parent_components[i] # child_components[i]
        THEN [is_child |-> FALSE, path |-> <<>>]
        ELSE [is_child |-> TRUE,
              path |-> AppendAll(<<>>, SubSeq(child_components, n + 1,
                                              Len(child_components)))]

\* FilePath::NormalizePathSeparatorsTo: every separator character of the
\* platform becomes the one given; POSIX has the forward slash alone.
NormalizePathSeparatorsTo(path, separator) ==
    [i \in 1..Len(path) |-> IF IsSeparator(path[i]) THEN separator ELSE path[i]]

MakePathKept(media_path, parent_path) ==
    NormalizePathSeparatorsTo(media_path, "/")

MakePathRelative(media_path, parent_path) ==
    LET relative == AppendRelativePath(parent_path, media_path)
        relative_path == IF ~relative.is_child THEN media_path ELSE relative.path
    IN  NormalizePathSeparatorsTo(relative_path, "/")

StartsWith(str, prefix) ==
    Len(str) >= Len(prefix) /\ SubSeq(str, 1, Len(prefix)) = prefix

\* One optional field of the MediaInfo: <<>> when absent, <<path>> when set.
RelativeField(field, mpd_dir) ==
    IF field # <<>> THEN <<MakePathRelative(field[1], mpd_dir)>> ELSE field

\* MpdBuilder::MakePathsRelativeToMpd: the MediaInfo after the call.
MakePathsRelative(path, info) ==
    LET mpd_file_path == IF StartsWith(path, kFileProtocol)
                         THEN SubSeq(path, Len(kFileProtocol) + 1, Len(path))
                         ELSE path
        mpd_dir == AsEndingWithSeparator(DirName(mpd_file_path))
    IN  IF mpd_file_path # <<>> /\ mpd_dir # <<>>
        THEN [media_file_name |-> RelativeField(info.media_file_name, mpd_dir),
              init_segment_name |-> RelativeField(info.init_segment_name, mpd_dir),
              segment_template |-> RelativeField(info.segment_template, mpd_dir)]
        ELSE info

----------------------------------------------------------------------------
(* Operations *)

Alive == ret # "crash"

AddBaseUrl(base_url) ==
    /\ Alive
    /\ Len(base_urls) < MaxBaseUrls
    /\ base_urls' = Append(base_urls, base_url)
    /\ last_op' = "AddBaseUrl"
    /\ dirty' = TRUE
    /\ UNCHANGED <<config_vars, periods, availability_start_time, now,
                   output, ret>>
    /\ UNCHANGED path_vars

AddPeriod ==
    /\ Alive
    /\ Len(periods) < MaxPeriods
    /\ periods' = Append(periods, NewPeriod)
    /\ last_op' = "AddPeriod"
    /\ dirty' = TRUE
    /\ UNCHANGED <<config_vars, base_urls, availability_start_time, now,
                   output, ret>>
    /\ UNCHANGED path_vars

\* ToString: writes the document to the output and returns true, or
\* returns false, or the process dies inside GenerateMpd.  elapsed is the
\* time that passes between two readings of the clock within the call.
ToString(ub, elapsed) ==
    /\ Alive
    /\ now + elapsed <= MaxClock
    /\ \E doc \in {GenerateMpd(ub, elapsed)} :
           /\ availability_start_time' = doc.ast
           /\ now' = doc.clock
           /\ output' = IF doc.status = "doc" THEN doc.doc ELSE output
           /\ ret' = IF doc.status = "doc" THEN "true"
                     ELSE IF doc.status = "null" THEN "false" ELSE "crash"
    /\ last_op' = "ToString"
    /\ dirty' = FALSE
    /\ UNCHANGED <<config_vars, base_urls, periods>>
    /\ UNCHANGED path_vars

\* The wall clock advances.
Tick ==
    /\ Alive
    /\ now < MaxClock
    /\ now' = now + 1
    /\ last_op' = "Tick"
    /\ UNCHANGED <<config_vars, base_urls, periods,
                   availability_start_time, output, ret, dirty>>
    /\ UNCHANGED path_vars

\* MakePathsRelativeToMpd(mpd_path, &media_info), a static method.
MakePathsRelativeToMpd ==
    /\ path_calls < MaxPathCalls
    /\ media_info' = MakePathsRelative(mpd_path, media_info)
    /\ path_calls' = path_calls + 1
    /\ UNCHANGED <<mpd_path, given_info>>
    /\ UNCHANGED builder_vars

(* The Period collaborator, driven through the pointer AddPeriod returned *)

\* A period's earliest presentation timestamp becomes known or changes.
SetEarliestTimestamp(i, t) ==
    /\ Alive
    /\ i \in 1..Len(periods)
    /\ periods[i].earliest # <<t>>
    /\ periods' = [periods EXCEPT ![i].earliest = <<t>>]
    /\ last_op' = "SetEarliestTimestamp"
    /\ dirty' = TRUE
    /\ UNCHANGED <<config_vars, base_urls, availability_start_time, now,
                   output, ret>>
    /\ UNCHANGED path_vars

\* A period stops or resumes producing an attachable subtree.
SetPeriodXml(i, x) ==
    /\ Alive
    /\ i \in 1..Len(periods)
    /\ periods[i].xml # x
    /\ periods' = [periods EXCEPT ![i].xml = x]
    /\ last_op' = "SetPeriodXml"
    /\ dirty' = TRUE
    /\ UNCHANGED <<config_vars, base_urls, availability_start_time, now,
                   output, ret>>
    /\ UNCHANGED path_vars

AddAdaptationSet(i) ==
    /\ Alive
    /\ i \in 1..Len(periods)
    /\ Len(periods[i].adaptation_sets) < MaxAdaptationSets
    /\ periods' = [periods EXCEPT ![i].adaptation_sets = Append(@, <<>>)]
    /\ last_op' = "AddAdaptationSet"
    /\ dirty' = TRUE
    /\ UNCHANGED <<config_vars, base_urls, availability_start_time, now,
                   output, ret>>
    /\ UNCHANGED path_vars

\* A representation is added, with or without a scratch duration hint.
AddRepresentation(i, g, hint) ==
    /\ Alive
    /\ i \in 1..Len(periods)
    /\ g \in 1..Len(periods[i].adaptation_sets)
    /\ Len(periods[i].adaptation_sets[g]) < MaxRepresentations
    /\ periods' = [periods EXCEPT ![i].adaptation_sets[g] = Append(@, hint)]
    /\ last_op' = "AddRepresentation"
    /\ dirty' = TRUE
    /\ UNCHANGED <<config_vars, base_urls, availability_start_time, now,
                   output, ret>>
    /\ UNCHANGED path_vars

----------------------------------------------------------------------------
(* Specifications *)

Options(profile, type, buffer, update, depth, delay) ==
    [dash_profile |-> profile, mpd_type |-> type, min_buffer_time |-> buffer,
     minimum_update_period |-> update, time_shift_buffer_depth |-> depth,
     suggested_presentation_delay |-> delay]

\* Versions the packager can be built with: none, or a version string.
PackagerVersions == {<<>>, <<"v">>}

\* Base URLs a caller adds: a plain one and one with a query string.
BaseUrls == {<<"http://cdn/">>, <<"http://cdn/?a=1", BareAmpersand, "b=2">>}

\* The state after MpdBuilder's constructor, for options in option_set.
Constructed(option_set) ==
    /\ mpd_options \in option_set
    /\ build \in {"debug", "release"}
    /\ version \in PackagerVersions
    /\ base_urls = <<>>
    /\ periods = <<>>
    /\ availability_start_time = <<>>
    /\ now = 0
    /\ output = NoDocument
    /\ ret = "none"
    /\ last_op = "MpdBuilder"
    /\ dirty = FALSE
    /\ media_info = [media_file_name |-> <<>>, init_segment_name |-> <<>>,
                     segment_template |-> <<>>]
    /\ mpd_path = <<>>
    /\ given_info = media_info
    /\ path_calls = 0

\* A live, dynamic builder whose periods receive segments as time passes.
Init == Constructed({Options("live", "dynamic", 1, 1, 1, 1)})

Next ==
    \/ \E u \in BaseUrls : AddBaseUrl(u)
    \/ AddPeriod
    \/ \E i \in 1..MaxPeriods, t \in Timestamps : SetEarliestTimestamp(i, t)
    \/ Tick
    \/ \E ub \in UndefinedOutcomes, elapsed \in 0..MaxClock :
          ToString(ub, elapsed)

Spec == Init /\ [][Next]_vars

AllOptions ==
    {Options(p, t, b, u, d, s) :
        p \in {"on_demand", "live", "unknown"},
        t \in {"static", "dynamic", "unknown"},
        b \in ParamValues, u \in ParamValues, d \in ParamValues,
        s \in ParamValues}

\* Every configuration a caller can construct the builder with.
InitOptions == Constructed(AllOptions)

NextOptions ==
    \/ \E u \in BaseUrls : AddBaseUrl(u)
    \/ AddPeriod
    \/ \E ub \in UndefinedOutcomes : ToString(ub, 0)    \* the clock stands still

SpecOptions == InitOptions /\ [][NextOptions]_vars

\* Builders whose children can fail to be produced or attached.
InitFail ==
    Constructed({Options("on_demand", "static", 1, 1, 1, 1),
                 Options("live", "dynamic", 1, 1, 1, 1)})

NextFail ==
    \/ \E u \in BaseUrls \cup {RejectedContent} : AddBaseUrl(u)
    \/ AddPeriod
    \/ \E i \in 1..MaxPeriods, x \in {"ok", "null", "reject"} : SetPeriodXml(i, x)
    \/ \E t \in Timestamps : SetEarliestTimestamp(1, t)
    \/ \E ub \in UndefinedOutcomes : ToString(ub, 0)    \* the clock stands still

SpecFail == InitFail /\ [][NextFail]_vars

\* A static on-demand builder whose periods receive representations.
InitStatic == Constructed({Options("on_demand", "static", 1, 1, 1, 1)})

NextStatic ==
    \/ AddPeriod
    \/ \E i \in 1..MaxPeriods : AddAdaptationSet(i)
    \/ \E i \in 1..MaxPeriods, g \in 1..MaxAdaptationSets,
          hint \in {NoHint} \cup {<<h>> : h \in DurationHints} :
            AddRepresentation(i, g, hint)
    \/ \E ub \in UndefinedOutcomes : ToString(ub, 0)    \* the clock stands still

SpecStatic == InitStatic /\ [][NextStatic]_vars

\* Builders serialized again and again: a static one whose first period
\* receives an adaptation set and its representations, a live one whose
\* periods receive segments as time passes.
InitRepeat ==
    Constructed({Options("on_demand", "static", 1, 1, 1, 1),
                 Options("live", "dynamic", 1, 1, 1, 1)})

NextRepeat ==
    \/ \E u \in BaseUrls : AddBaseUrl(u)
    \/ AddPeriod
    \/ /\ mpd_options.mpd_type = "static"
       /\ periods # <<>>
       /\ periods[1].adaptation_sets = <<>>
       /\ AddAdaptationSet(1)
    \/ \E hint \in {NoHint} \cup {<<h>> : h \in DurationHints} :
          mpd_options.mpd_type = "static" /\ AddRepresentation(1, 1, hint)
    \/ \E i \in 1..MaxPeriods, t \in Timestamps :
          mpd_options.mpd_type = "dynamic" /\ SetEarliestTimestamp(i, t)
    \/ mpd_options.mpd_type = "dynamic" /\ Tick
    \/ \E ub \in UndefinedOutcomes, elapsed \in 0..MaxClock :
          ToString(ub, elapsed)

SpecRepeat == InitRepeat /\ [][NextRepeat]_vars

(* Path rewriting: inputs are paths of up to MaxSegments names, absolute or
   relative, the manifest path with or without the file:// prefix. *)

RECURSIVE Join(_)
Join(segments) ==
    IF segments = <<>> THEN <<>>
    ELSE IF Len(segments) = 1 THEN Head(segments)
    ELSE Head(segments) \o <<"/">> \o Join(Tail(segments))

SegmentLists ==
    UNION {[1..n -> {<<"a">>, <<"b">>}] : n \in 0..MaxSegments}

Paths == {root \o Join(segments) : root \in {<<>>, <<"/">>}, segments \in SegmentLists}

OtherFieldValues == {<<>>, <<<<"/", "a", "/", "b">>>>, <<<<"a", "/", "b">>>>}

InitPath ==
    /\ mpd_options = Options("on_demand", "static", 1, 1, 1, 1)
    /\ build = "release"
    /\ version = <<"v">>
    /\ base_urls = <<>>
    /\ periods = <<>>
    /\ availability_start_time = <<>>
    /\ now = 0
    /\ output = NoDocument
    /\ ret = "none"
    /\ last_op = "MpdBuilder"
    /\ dirty = FALSE
    /\ mpd_path \in {prefix \o path : prefix \in {<<>>, kFileProtocol}, path \in Paths}
    /\ media_info \in
          [media_file_name : {<<>>} \cup {<<path>> : path \in Paths},
           init_segment_name : OtherFieldValues,
           segment_template : OtherFieldValues]
    /\ given_info = media_info
    /\ path_calls = 0

NextPath == MakePathsRelativeToMpd

SpecPath == InitPath /\ [][NextPath]_vars

----------------------------------------------------------------------------
(* Properties *)

Root == output.root

Serialized == last_op = "ToString" /\ ret = "true"

\* The whole seconds an instant in ticks has completed.
WholeSeconds(ticks) ==
    CHOOSE s \in 0..ticks :
        s * TicksPerSecond <= ticks /\ ticks < (s + 1) * TicksPerSecond

\* The least whole number of seconds that is no less than t ticks.
LeastSecondsCovering(t) ==
    CHOOSE n \in 0..t :
        n * TicksPerSecond >= t /\ \A k \in 0..(n - 1) : k * TicksPerSecond < t

\* The printed date-time s seconds from the Unix epoch, within a minute of it.
EpochDateTime(s) ==
    IF s >= 0 THEN <<1970, 1, 1, 0, 0, s>> ELSE <<1969, 12, 31, 23, 59, 60 + s>>

\* C1: once availability_start_time_ is non-empty it never changes, whatever
\* operation follows, and every later successful serialization emits it.
C1_AvailabilityStartTimeFixed ==
    [][availability_start_time # <<>> =>
        /\ availability_start_time' = availability_start_time
        /\ (last_op' = "ToString" /\ ret' = "true") =>
              /\ HasAttr(output'.root, "availabilityStartTime")
              /\ GetAttr(output'.root, "availabilityStartTime")
                     = availability_start_time]_vars

\* C1 witness: a serialization emitted the cached value although a
\* calculation at this instant, from the first period, would give another.
C1_Witness ==
    /\ Serialized
    /\ availability_start_time # <<>>
    /\ HasAttr(Root, "availabilityStartTime")
    /\ GetAttr(Root, "availabilityStartTime") = availability_start_time
    /\ periods # <<>>
    /\ periods[1].earliest # NoTimestamp
    /\ availability_start_time #
           EpochDateTime(WholeSeconds(now)
                         - LeastSecondsCovering(periods[1].earliest[1]))

\* C2: with an empty cache and a first period reporting t, a serialization
\* sets and emits the date-time of the instant the clock reports when the
\* value is calculated, minus ceil(t) whole seconds; the other periods play
\* no part.
C2_NowMinusCeilOfFirstPeriod ==
    [][(/\ last_op' = "ToString"
        /\ ret' = "true"
        /\ availability_start_time = <<>>
        /\ periods # <<>>
        /\ periods[1].earliest # NoTimestamp) =>
       LET expected == EpochDateTime(WholeSeconds(now')
                           - LeastSecondsCovering(periods[1].earliest[1]))
       IN  /\ availability_start_time' = expected
           /\ HasAttr(output'.root, "availabilityStartTime")
           /\ GetAttr(output'.root, "availabilityStartTime") = expected]_vars

\* C2 witness: the value emitted is the one of the first period (1.5 s, so
\* two seconds before the instant read for the calculation) while the second
\* period reports another timestamp that would have given another value, and
\* publishTime shows the clock stood a second earlier when it was read first.
C2_Witness ==
    /\ Serialized
    /\ Len(periods) >= 2
    /\ periods[1].earliest = <<3>>
    /\ periods[2].earliest = <<1>>
    /\ HasAttr(Root, "availabilityStartTime")
    /\ GetAttr(Root, "availabilityStartTime") = EpochDateTime(WholeSeconds(now) - 2)
    /\ GetAttr(Root, "publishTime") = EpochDateTime(WholeSeconds(now) - 1)

\* C3 as claimed: in a dynamic builder with an empty cache and no earliest
\* timestamp available (no period, or a first period reporting none),
\* ToString succeeds, emits no availabilityStartTime and leaves the cache
\* empty; it never fails hard.
C3_UnavailableIsNotFatal ==
    [][(/\ last_op' = "ToString"
        /\ availability_start_time = <<>>
        /\ (periods = <<>> \/ periods[1].earliest = NoTimestamp)) =>
       /\ ret' = "true"
       /\ ~HasAttr(output'.root, "availabilityStartTime")
       /\ availability_start_time' = <<>>]_vars

StripPublishTime(doc) == [doc EXCEPT !.root = UnsetProp(@, "publishTime")]

SerializationIdempotentWithPeriods ==
    [][(ret = "true" /\ ~dirty /\ last_op' = "ToString" /\ ret' = "true"
        /\ (periods # <<>> \/ mpd_options.mpd_type = "static")) =>
       StripPublishTime(output') = StripPublishTime(output)]_vars

\* Some base URL or some period, at any position, cannot be attached.
SomeChildFails ==
    \/ \E i \in 1..Len(base_urls) : base_urls[i] = RejectedContent
    \/ \E i \in 1..Len(periods) : periods[i].xml # "ok"

\* C4: when a BaseURL child or a period at any position fails, ToString
\* returns false, leaves the output string as it was and leaves base URLs,
\* periods and the cached availability start time as they were.
C4_AllOrNothing ==
    [][(last_op' = "ToString" /\ SomeChildFails) =>
       /\ ret' = "false"
       /\ output' = output
       /\ base_urls' = base_urls
       /\ periods' = periods
       /\ availability_start_time' = availability_start_time]_vars

\* C4 witness: a call failed on the last period although the first one is
\* fine, and the output still holds the document of an earlier call while
\* the cache holds the value that call calculated.
C4_Witness ==
    /\ last_op = "ToString"
    /\ ret = "false"
    /\ Len(periods) >= 2
    /\ periods[1].xml = "ok"
    /\ periods[Len(periods)].xml # "ok"
    /\ output # NoDocument
    /\ availability_start_time # <<>>
    /\ GetAttr(Root, "availabilityStartTime") = availability_start_time

\* The hints of all representations of all periods of the builder.
AllHints ==
    {periods[i].adaptation_sets[g][r][1] :
        <<i, g, r>> \in
            {<<i, g, r>> \in (1..Len(periods)) \X (1..MaxAdaptationSets + 1)
                             \X (1..MaxRepresentations + 1) :
                /\ g <= Len(periods[i].adaptation_sets)
                /\ r <= Len(periods[i].adaptation_sets[g])
                /\ periods[i].adaptation_sets[g][r] # NoHint}}

MaxOf(S) == IF S = {} THEN 0 ELSE CHOOSE m \in S : \A x \in S : x <= m

\* C5 as claimed: the mediaPresentationDuration of a static manifest is the
\* maximum of the duration hints over all representations of all periods,
\* 0 when there is none.
C5_DurationIsMaxOverAllPeriods ==
    (Serialized /\ mpd_options.mpd_type = "static") =>
        /\ HasAttr(Root, "mediaPresentationDuration")
        /\ GetAttr(Root, "mediaPresentationDuration")
               = SecondsToXmlDuration(MaxOf(AllHints))

\* The representation elements of a document.
RepresentationsOf(mpd) ==
    {mpd.children[i].children[g].children[r] :
        <<i, g, r>> \in
            {<<i, g, r>> \in (1..Len(mpd.children)) \X (1..MaxAdaptationSets + 1)
                             \X (1..MaxRepresentations + 1) :
                /\ g <= Len(mpd.children[i].children)
                /\ r <= Len(mpd.children[i].children[g].children)}}

\* C6 as claimed: no representation of a static manifest that was emitted
\* carries the scratch duration attribute.
C6_NoScratchDurationLeft ==
    (Serialized /\ mpd_options.mpd_type = "static") =>
        \A rep \in RepresentationsOf(Root) : ~HasAttr(rep, "duration")

\* What does hold of C5 and C6: both are true of the first period alone.
FirstPeriodOnly ==
    (Serialized /\ mpd_options.mpd_type = "static" /\ periods # <<>>) =>
        LET first == Len(base_urls) + 1
            hints == {periods[1].adaptation_sets[g][r][1] :
                         <<g, r>> \in
                           {<<g, r>> \in (1..MaxAdaptationSets + 1)
                                         \X (1..MaxRepresentations + 1) :
                              /\ g <= Len(periods[1].adaptation_sets)
                              /\ r <= Len(periods[1].adaptation_sets[g])
                              /\ periods[1].adaptation_sets[g][r] # NoHint}}
        IN  /\ GetAttr(Root, "mediaPresentationDuration")
                = SecondsToXmlDuration(MaxOf(hints))
            /\ \A g \in 1..Len(Root.children[first].children) :
                 \A r \in 1..Len(Root.children[first].children[g].children) :
                   ~HasAttr(Root.children[first].children[g].children[r],
                            "duration")

\* An attribute is in the emitted root exactly when the value is above zero.
Gate(attr_name, value) == HasAttr(Root, attr_name) <=> value > 0

\* C7: an emitted manifest has minBufferTime exactly when the configured
\* value is above zero; an emitted dynamic manifest has minimumUpdatePeriod,
\* timeShiftBufferDepth and suggestedPresentationDelay exactly when theirs
\* are; and no value makes ToString return false or abort.
C7_PositiveOnlyGate ==
    /\ Serialized =>
          /\ Gate("minBufferTime", mpd_options.min_buffer_time)
          /\ mpd_options.mpd_type = "dynamic" =>
                /\ Gate("minimumUpdatePeriod", mpd_options.minimum_update_period)
                /\ Gate("timeShiftBufferDepth",
                        mpd_options.time_shift_buffer_depth)
                /\ Gate("suggestedPresentationDelay",
                        mpd_options.suggested_presentation_delay)
    /\ ret # "false"
    /\ ret = "crash" =>
          \/ build = "debug" /\ mpd_options.dash_profile = "unknown"
          \/ build = "debug" /\ mpd_options.mpd_type = "unknown"
          \/ mpd_options.mpd_type = "dynamic" /\ periods = <<>>

\* C7 witness: a dynamic manifest was emitted with a zero, a negative and
\* two positive values: two attributes absent, two present.
C7_Witness ==
    /\ Serialized
    /\ periods # <<>>
    /\ mpd_options.mpd_type = "dynamic"
    /\ mpd_options.min_buffer_time = 0
    /\ mpd_options.minimum_update_period = -1
    /\ mpd_options.time_shift_buffer_depth = 1
    /\ mpd_options.suggested_presentation_delay = 1
    /\ ~HasAttr(Root, "minBufferTime")
    /\ ~HasAttr(Root, "minimumUpdatePeriod")
    /\ HasAttr(Root, "timeShiftBufferDepth")
    /\ HasAttr(Root, "suggestedPresentationDelay")

ProfileUri ==
    [on_demand |-> "urn:mpeg:dash:profile:isoff-on-demand:2011",
     live |-> "urn:mpeg:dash:profile:isoff-live:2011"]

\* C9 as claimed: a ToString call with an unrecognized profile or type does
\* not succeed, and every emitted root has one profiles attribute with the
\* URI of the configured profile and one type attribute, static or dynamic.
C9_UnknownEnumFails ==
    /\ (last_op = "ToString"
        /\ (mpd_options.dash_profile = "unknown"
            \/ mpd_options.mpd_type = "unknown")) => ret # "true"
    /\ Serialized =>
          /\ CountAttr(Root, "profiles") = 1
          /\ mpd_options.dash_profile \in DOMAIN ProfileUri
          /\ GetAttr(Root, "profiles") = ProfileUri[mpd_options.dash_profile]
          /\ CountAttr(Root, "type") = 1
          /\ GetAttr(Root, "type") \in {"static", "dynamic"}

\* The names between the separators of a path, first to last.
RECURSIVE Names(_, _)
Names(path, name) ==
    IF path = <<>> THEN (IF name = <<>> THEN <<>> ELSE <<name>>)
    ELSE IF Head(path) = "/"
         THEN (IF name = <<>> THEN <<>> ELSE <<name>>) \o Names(Tail(path), <<>>)
         ELSE Names(Tail(path), Append(name, Head(path)))

\* Where a path leads: the root, when it starts at the root, then its names.
Location(path) ==
    (IF path # <<>> /\ Head(path) = "/" THEN <<<<"/">>>> ELSE <<>>)
    \o Names(path, <<>>)

\* The manifest path without a leading file://.
ManifestFile ==
    IF Len(mpd_path) >= 7 /\ SubSeq(mpd_path, 1, 7) = kFileProtocol
    THEN SubSeq(mpd_path, 8, Len(mpd_path))
    ELSE mpd_path

\* Where the directory of the manifest is: the manifest's location without
\* the file name; the current directory when nothing is left.
ManifestDirectory ==
    LET location == Location(ManifestFile)
        above == IF Names(ManifestFile, <<>>) = <<>> THEN location
                 ELSE SubSeq(location, 1, Len(location) - 1)
    IN  IF above = <<>> THEN <<<<".">>>> ELSE above

IsDescendant(path, directory) ==
    /\ Len(directory) < Len(Location(path))
    /\ SubSeq(Location(path), 1, Len(directory)) = directory

\* What the claim says one field becomes.
Rewritten(field) ==
    IF field = <<>> THEN <<>>
    ELSE IF IsDescendant(field[1], ManifestDirectory)
         THEN <<Join(SubSeq(Location(field[1]), Len(ManifestDirectory) + 1,
                            Len(Location(field[1]))))>>
         ELSE field

FieldsRewritten ==
    IF ManifestFile = <<>> THEN media_info' = media_info
    ELSE /\ media_info'.media_file_name = Rewritten(media_info.media_file_name)
         /\ media_info'.init_segment_name = Rewritten(media_info.init_segment_name)
         /\ media_info'.segment_template = Rewritten(media_info.segment_template)

\* C10 as claimed: each present field below the manifest directory becomes
\* relative to it, every other field is kept, nothing changes for an empty
\* manifest path, and a second call with the same manifest path changes
\* nothing.
C10_RelativeAndIdempotent ==
    [][path_calls' = path_calls + 1 =>
        /\ FieldsRewritten
        /\ path_calls >= 1 => media_info' = media_info]_vars

\* C10 amended: the same, the second call changing nothing when the manifest
\* directory is absolute.
C10_RelativeAndIdempotentIfAbsolute ==
    [][path_calls' = path_calls + 1 =>
        /\ FieldsRewritten
        /\ (path_calls >= 1 /\ ManifestDirectory[1] = <<"/">>) =>
              media_info' = media_info]_vars

\* C10 witness: two calls with manifest file:///b/a were made on a record
\* whose media file /b/a/b lies below /b and became a/b, whose init segment
\* /a/b lies outside and was kept, and whose segment template is absent.
C10_Witness ==
    /\ path_calls = 2
    /\ mpd_path = kFileProtocol \o <<"/", "b", "/", "a">>
    /\ given_info.media_file_name = <<<<"/", "b", "/", "a", "/", "b">>>>
    /\ media_info.media_file_name = <<<<"a", "/", "b">>>>
    /\ given_info.init_segment_name = <<<<"/", "a", "/", "b">>>>
    /\ media_info.init_segment_name = <<<<"/", "a", "/", "b">>>>
    /\ given_info.segment_template = <<>>
    /\ media_info.segment_template = <<>>

====
